---- MODULE Spec2Model ----
(***************************************************************************)
(* The response builder of json-response-standard in its language          *)
(* variants: examples/response.js, examples/response.ts, the copy inlined  *)
(* in test/test.ts, examples/response.php and examples/response.go.        *)
(*                                                                         *)
(* A call is one behaviour: Init draws the variant and the arguments, the  *)
(* variant's action applies the builder, and Parse is the caller decoding  *)
(* the returned text (JSON.parse, json_decode, json.Unmarshal).            *)
(*                                                                         *)
(* Texts are strings, read one character at a time with SubSeq.  Values    *)
(* are records tagged by t:                                                *)
(*   undefined (an omitted argument), null, bool, int, float (n2 is twice  *)
(*   the value, so 401 is 200.5), nan, inf, ninf, str, arr, obj (m is the  *)
(*   sequence of <<key, value>> members in insertion order), func,         *)
(*   phpobject (a PHP object, which is not a PHP array), cyclic (a         *)
(*   structure that contains itself).                                      *)
(***************************************************************************)
EXTENDS Integers, Sequences, FiniteSets, TLC

VARIABLES lang, args, pc, result, decoded,
          history, stdout, callerData,
          clang, cargs, cpc, cresponse, cresult,
          tprog, tlines, tpassed, texit,
          rtarget, files, runtimes, tsNode, rpc, ridx, rresults, recorded, rlog, rexit,
          lpc, llog, lreturn

\* One caller that makes its calls one after the other: the variant, the
\* arguments of the call, where the caller stands, what the call returned and
\* what the caller decoded; the calls made so far, what was written to the
\* standard output, and the value the caller passed as data as the caller
\* sees it.
seqVars == <<lang, args, pc, result, decoded, history, stdout, callerData>>

\* Callers that run at the same time: for each caller its variant, its
\* arguments, the line it stands at, its Response value and what it returned.
concVars == <<clang, cargs, cpc, cresponse, cresult>>

\* A test program: which one it is, the [PASS] and [FAIL] lines it has
\* printed, its count of passed tests and its exit code.
testVars == <<tprog, tlines, tpassed, texit>>

\* The unified test runner: the command-line argument, the test files and
\* the runtime commands the machine has, whether ts-node is installed, where
\* the runner stands, the index of its loop, the results array of run, the
\* results object of the runner, what it has done and printed so far, and its
\* exit code.
runnerVars == <<rtarget, files, runtimes, tsNode, rpc, ridx, rresults, recorded, rlog, rexit>>

\* scripts/test-language.js: the line testLanguage stands at, the commands
\* it has run with the way each ended, and what it returned.
testerVars == <<lpc, llog, lreturn>>

\* The programs around the builder: the test programs, the test runner and
\* the language tester.
toolVars == <<tprog, tlines, tpassed, texit,
              rtarget, files, runtimes, tsNode, rpc, ridx, rresults, recorded, rlog, rexit,
              lpc, llog, lreturn>>

vars == <<lang, args, pc, result, decoded, history, stdout, callerData,
          clang, cargs, cpc, cresponse, cresult,
          tprog, tlines, tpassed, texit,
          rtarget, files, runtimes, tsNode, rpc, ridx, rresults, recorded, rlog, rexit,
          lpc, llog, lreturn>>

(***************************************************************************)
(* Values                                                                  *)
(***************************************************************************)
Undefined == [t |-> "undefined"]
Null == [t |-> "null"]
Bool(b) == [t |-> "bool", b |-> b]
IntVal(n) == [t |-> "int", n |-> n]
Float(n2) == [t |-> "float", n2 |-> n2]
NaN == [t |-> "nan"]
Inf == [t |-> "inf"]
NegInf == [t |-> "ninf"]
Str(s) == [t |-> "str", s |-> s]
Arr(a) == [t |-> "arr", a |-> a]
Obj(m) == [t |-> "obj", m |-> m]
Func == [t |-> "func"]
PhpObject == [t |-> "phpobject"]
Cyclic == [t |-> "cyclic"]

EmptyObj == Obj(<<>>)
EmptyArr == Arr(<<>>)

\* A code unit that is not valid text: a byte that is not UTF-8 in a Go or
\* PHP string, a lone surrogate in a JavaScript string.
BadUnit == "^"
\* U+FFFD, the replacement character.
Replacement == "~"

CharAt(s, i) == SubSeq(s, i, i)

Digits == "0123456789"

DigitOf(d) == CharAt(Digits, d + 1)

RECURSIVE NatText(_)
NatText(n) == IF n < 10 THEN DigitOf(n) ELSE NatText(n \div 10) \o DigitOf(n % 10)

IntText(n) == IF n < 0 THEN "-" \o NatText(0 - n) ELSE NatText(n)

RECURSIVE Spaces(_)
Spaces(n) == IF n = 0 THEN "" ELSE " " \o Spaces(n - 1)

\* Whether text p occurs in text s.
Contains(s, p) == \E i \in 1..(Len(s) - Len(p) + 1) : SubSeq(s, i, i + Len(p) - 1) = p

(***************************************************************************)
(* Outcomes of a call.  ok: the builder returned a text and no error.      *)
(* out: the text handed to the caller ("" when there is none).  kind: the  *)
(* check that failed; cls: the class of the error value; text: its         *)
(* message.                                                                *)
(***************************************************************************)
NoResult == [ok |-> FALSE, out |-> "", kind |-> "pending", cls |-> "", text |-> ""]

Return(txt) == [ok |-> TRUE, out |-> txt, kind |-> "", cls |-> "", text |-> ""]

Throw(kind, cls, txt) == [ok |-> FALSE, out |-> "", kind |-> kind, cls |-> cls, text |-> txt]

(***************************************************************************)
(* JavaScript: JSON.stringify(value, null, 2)                              *)
(***************************************************************************)
JsIndent == 2

\* An escape that leaves the backslash as it is.
JsEscapeNoBackslash(c) ==
    CASE c = "\"" -> "\\\""
      [] c = "\n" -> "\\n"
      [] c = BadUnit -> "\\ud800"
      [] OTHER -> c

\* QuoteJSONString: the escapes of '"', '\' and control characters; a lone
\* surrogate is written as its \u escape; '/' and '<' are written as they are.
JsEscape(c) ==
    CASE c = "\"" -> "\\\""
      [] c = "\\" -> "\\\\"
      [] c = "\n" -> "\\n"
      [] c = BadUnit -> "\\ud800"
      [] OTHER -> c

RECURSIVE JsEscapeAll(_)
JsEscapeAll(s) == IF s = "" THEN "" ELSE JsEscape(Head(s)) \o JsEscapeAll(Tail(s))

JsQuote(s) == "\"" \o JsEscapeAll(s) \o "\""

\* n2 is twice the number: the shortest decimal text of a half.
HalfText(n2) ==
    IF n2 < 0 THEN "-" \o NatText((0 - n2) \div 2) \o ".5" ELSE NatText(n2 \div 2) \o ".5"

\* SerializeJSONProperty yields undefined for these: an object member is
\* left out, an array element is written null.
JsOmitted(v) == v.t \in {"undefined", "func"}

\* JSON.stringify throws a TypeError for a structure that contains itself.
RECURSIVE JsSerializable(_)
JsSerializable(v) ==
    CASE v.t = "cyclic" -> FALSE
      [] v.t = "arr" -> \A i \in 1..Len(v.a) : JsSerializable(v.a[i])
      [] v.t = "obj" -> \A i \in 1..Len(v.m) : JsSerializable(v.m[i][2])
      [] OTHER -> TRUE

JsCycleText == "Converting circular structure to JSON"

RECURSIVE JsStringify(_, _)
RECURSIVE JsElements(_, _, _)
RECURSIVE JsMembers(_, _, _)
JsStringify(v, ind) ==
    CASE v.t = "null" -> "null"
      [] v.t = "bool" -> (IF v.b THEN "true" ELSE "false")
      [] v.t = "int" -> IntText(v.n)
      [] v.t = "float" -> HalfText(v.n2)
      [] v.t \in {"nan", "inf", "ninf"} -> "null"
      [] v.t = "str" -> JsQuote(v.s)
      [] v.t = "arr" ->
            IF Len(v.a) = 0 THEN "[]"
            ELSE "[\n" \o JsElements(v.a, 1, ind + JsIndent) \o "\n" \o Spaces(ind) \o "]"
      [] v.t = "obj" ->
            LET kept == SelectSeq(v.m, LAMBDA p : ~JsOmitted(p[2]))
            IN  IF Len(kept) = 0 THEN "{}"
                ELSE "{\n" \o JsMembers(kept, 1, ind + JsIndent) \o "\n" \o Spaces(ind) \o "}"

JsElements(a, i, ind) ==
    Spaces(ind)
    \o (IF JsOmitted(a[i]) THEN "null" ELSE JsStringify(a[i], ind))
    \o (IF i = Len(a) THEN "" ELSE ",\n" \o JsElements(a, i + 1, ind))

JsMembers(m, i, ind) ==
    Spaces(ind) \o JsQuote(m[i][1]) \o ": " \o JsStringify(m[i][2], ind)
    \o (IF i = Len(m) THEN "" ELSE ",\n" \o JsMembers(m, i + 1, ind))

(***************************************************************************)
(* examples/response.js                                                    *)
(***************************************************************************)
\* typeof v === 'number'
JsIsNumber(v) == v.t \in {"int", "float", "nan", "inf", "ninf"}

\* A lower bound one too low: status < 99.
JsLessOffByOne(v, k) ==
    CASE v.t = "int" -> v.n < k - 1
      [] v.t = "float" -> v.n2 < 2 * (k - 1)
      [] v.t = "ninf" -> TRUE
      [] OTHER -> FALSE

\* v < k and v > k for a number v and an integer k; every comparison with NaN
\* is false.
JsLess(v, k) ==
    CASE v.t = "int" -> v.n < k
      [] v.t = "float" -> v.n2 < 2 * k
      [] v.t = "ninf" -> TRUE
      [] OTHER -> FALSE

\* An upper bound that shuts out the boundary: status >= 599.
JsGreaterOrEqual(v, k) ==
    CASE v.t = "int" -> v.n >= k
      [] v.t = "float" -> v.n2 >= 2 * k
      [] v.t = "inf" -> TRUE
      [] OTHER -> FALSE

JsGreater(v, k) ==
    CASE v.t = "int" -> v.n > k
      [] v.t = "float" -> v.n2 > 2 * k
      [] v.t = "inf" -> TRUE
      [] OTHER -> FALSE

\* ToBoolean(v) is false
JsFalsy(v) ==
    \/ v.t \in {"undefined", "null", "nan"}
    \/ v.t = "bool" /\ ~v.b
    \/ v.t = "int" /\ v.n = 0
    \/ v.t = "str" /\ v.s = ""

\* A message check that lets a number through.
JsIsStringLoose(v) == v.t \in {"str", "int"}

\* typeof v === 'string'
JsIsString(v) == v.t = "str"

\* A default parameter value replaces an argument that is undefined.
JsDefault(v, dflt) == IF v.t = "undefined" THEN dflt ELSE v

StatusMin == 100
StatusMax == 599
DefaultStatus == 200

JsStatusText == "Status must be a valid HTTP status code (100-599)"
JsMessageText == "Message must be a string"

\* An envelope that puts the payload first.
JsEnvelopeDataFirst(data, status, message) ==
    Obj(<< <<"data", IF JsFalsy(data) THEN EmptyObj ELSE data>>, <<"status", status>>,
           <<"message", message>> >>)

JsEnvelope(data, status, message) ==
    Obj(<< <<"status", status>>, <<"message", message>>,
           <<"data", IF JsFalsy(data) THEN EmptyObj ELSE data>> >>)

jsonResponseJs(data0, status0, message0) ==
    LET data == JsDefault(data0, EmptyObj)
        status == JsDefault(status0, IntVal(DefaultStatus))
        message == JsDefault(message0, Str(""))
    IN  IF ~JsIsNumber(status) \/ JsLess(status, StatusMin) \/ JsGreater(status, StatusMax)
        THEN Throw("InvalidStatusCode", "Error", JsStatusText)
        ELSE IF ~JsIsString(message)
        THEN Throw("InvalidMessageType", "Error", JsMessageText)
        ELSE IF ~JsSerializable(JsEnvelope(data, status, message))
        THEN Throw("SerializationError", "TypeError", JsCycleText)
        ELSE Return(JsStringify(JsEnvelope(data, status, message), 0))

(***************************************************************************)
(* examples/response.ts and the copy of it inlined in test/test.ts         *)
(***************************************************************************)
\* A copy of the builder whose status check asks for an integer.
jsonResponseTsInteger(data0, status0, message0) ==
    LET status == JsDefault(status0, IntVal(DefaultStatus))
    IN  IF status.t # "int"
        THEN Throw("InvalidStatusCode", "Error", JsStatusText)
        ELSE jsonResponseJs(data0, status0, message0)

jsonResponseTs(data0, status0, message0) ==
    LET data == JsDefault(data0, EmptyObj)
        status == JsDefault(status0, IntVal(DefaultStatus))
        message == JsDefault(message0, Str(""))
    IN  IF ~JsIsNumber(status) \/ JsLess(status, StatusMin) \/ JsGreater(status, StatusMax)
        THEN Throw("InvalidStatusCode", "Error", JsStatusText)
        ELSE IF ~JsIsString(message)
        THEN Throw("InvalidMessageType", "Error", JsMessageText)
        ELSE LET response == JsEnvelope(data, status, message)
             IN  IF ~JsSerializable(response)
                 THEN Throw("SerializationError", "TypeError", JsCycleText)
                 ELSE Return(JsStringify(response, 0))

jsonResponseTestTs(data0, status0, message0) ==
    LET data == JsDefault(data0, EmptyObj)
        status == JsDefault(status0, IntVal(DefaultStatus))
        message == JsDefault(message0, Str(""))
    IN  IF ~JsIsNumber(status) \/ JsLess(status, StatusMin) \/ JsGreater(status, StatusMax)
        THEN Throw("InvalidStatusCode", "Error", JsStatusText)
        ELSE IF ~JsIsString(message)
        THEN Throw("InvalidMessageType", "Error", JsMessageText)
        ELSE LET response == JsEnvelope(data, status, message)
             IN  IF ~JsSerializable(response)
                 THEN Throw("SerializationError", "TypeError", JsCycleText)
                 ELSE Return(JsStringify(response, 0))

(***************************************************************************)
(* PHP: json_encode($response, JSON_PRETTY_PRINT)                          *)
(***************************************************************************)
PhpIndent == 4

\* json_encode escapes '/' unless told otherwise.
PhpEscape(c) ==
    CASE c = "\"" -> "\\\""
      [] c = "\\" -> "\\\\"
      [] c = "\n" -> "\\n"
      [] c = "/" -> "\\/"
      [] OTHER -> c

RECURSIVE PhpEscapeAll(_)
PhpEscapeAll(s) == IF s = "" THEN "" ELSE PhpEscape(Head(s)) \o PhpEscapeAll(Tail(s))

PhpQuote(s) == "\"" \o PhpEscapeAll(s) \o "\""

\* A float keeps its fraction: 200.0 is written 200.0.
PhpFloatText(n2) == IF n2 % 2 = 0 THEN IntText(n2 \div 2) \o ".0" ELSE HalfText(n2)

HasBadUnit(s) == \E i \in 1..Len(s) : CharAt(s, i) = BadUnit

\* json_encode returns false for malformed UTF-8 and for INF and NAN.
RECURSIVE PhpEncodable(_)
PhpEncodable(v) ==
    CASE v.t \in {"nan", "inf", "ninf", "func", "undefined", "cyclic"} -> FALSE
      [] v.t = "str" -> ~HasBadUnit(v.s)
      [] v.t = "arr" -> \A i \in 1..Len(v.a) : PhpEncodable(v.a[i])
      [] v.t = "obj" -> \A i \in 1..Len(v.m) : ~HasBadUnit(v.m[i][1]) /\ PhpEncodable(v.m[i][2])
      [] OTHER -> TRUE

\* A PHP array is written as a JSON array when it is a list and as a JSON
\* object otherwise; the empty array is a list.
RECURSIVE PhpEncode(_, _)
RECURSIVE PhpElements(_, _, _)
RECURSIVE PhpMembers(_, _, _)
PhpEncode(v, ind) ==
    CASE v.t = "null" -> "null"
      [] v.t = "bool" -> (IF v.b THEN "true" ELSE "false")
      [] v.t = "int" -> IntText(v.n)
      [] v.t = "float" -> PhpFloatText(v.n2)
      [] v.t = "str" -> PhpQuote(v.s)
      [] v.t = "phpobject" -> "{}"
      [] v.t = "arr" ->
            IF Len(v.a) = 0 THEN "[]"
            ELSE "[\n" \o PhpElements(v.a, 1, ind + PhpIndent) \o "\n" \o Spaces(ind) \o "]"
      [] v.t = "obj" ->
            IF Len(v.m) = 0 THEN "[]"
            ELSE "{\n" \o PhpMembers(v.m, 1, ind + PhpIndent) \o "\n" \o Spaces(ind) \o "}"

PhpElements(a, i, ind) ==
    Spaces(ind) \o PhpEncode(a[i], ind)
    \o (IF i = Len(a) THEN "" ELSE ",\n" \o PhpElements(a, i + 1, ind))

PhpMembers(m, i, ind) ==
    Spaces(ind) \o PhpQuote(m[i][1]) \o ": " \o PhpEncode(m[i][2], ind)
    \o (IF i = Len(m) THEN "" ELSE ",\n" \o PhpMembers(m, i + 1, ind))

(***************************************************************************)
(* examples/response.php                                                   *)
(***************************************************************************)
PhpStatusText == "Status must be a valid HTTP status code (100-599)"
PhpMessageText == "Message must be a string"
PhpDataText == "Data must be an array or null"
PhpEncodeText == "Failed to encode response as JSON"

\* A data check that lets a string through.
PhpIsArrayOrString(v) == v.t \in {"arr", "obj", "str"}

\* is_array($data)
PhpIsArray(v) == v.t \in {"arr", "obj"}

jsonResponsePhp(data0, status0, message0) ==
    LET data1 == IF data0.t = "undefined" THEN EmptyArr ELSE data0
        status == IF status0.t = "undefined" THEN IntVal(DefaultStatus) ELSE status0
        message == IF message0.t = "undefined" THEN Str("") ELSE message0
        data == IF data1.t = "null" THEN EmptyArr ELSE data1
        response == Obj(<< <<"status", status>>, <<"message", message>>, <<"data", data>> >>)
    IN  IF status.t # "int" \/ status.n < StatusMin \/ status.n > StatusMax
        THEN Throw("InvalidStatusCode", "InvalidArgumentException", PhpStatusText)
        ELSE IF message.t # "str"
        THEN Throw("InvalidMessageType", "InvalidArgumentException", PhpMessageText)
        ELSE IF ~PhpIsArray(data)
        THEN Throw("InvalidDataType", "InvalidArgumentException", PhpDataText)
        ELSE IF ~PhpEncodable(response)
        THEN Throw("SerializationError", "RuntimeException", PhpEncodeText)
        ELSE Return(PhpEncode(response, 0))

(***************************************************************************)
(* Go: json.MarshalIndent(response, "", "  ")                              *)
(***************************************************************************)
GoIndent == 2

\* encoding/json escapes '<', '>' and '&' for HTML and writes U+FFFD for a
\* byte that is not UTF-8.
GoEscape(c) ==
    CASE c = "\"" -> "\\\""
      [] c = "\\" -> "\\\\"
      [] c = "\n" -> "\\n"
      [] c = "<" -> "\\u003c"
      [] c = BadUnit -> "\\ufffd"
      [] OTHER -> c

RECURSIVE GoEscapeAll(_)
GoEscapeAll(s) == IF s = "" THEN "" ELSE GoEscape(Head(s)) \o GoEscapeAll(Tail(s))

GoQuote(s) == "\"" \o GoEscapeAll(s) \o "\""

\* The order of bytes, for the characters the model uses.
CharOrder == "\n \"/0123456789<ABCDEFGHIJKLMNOPQRSTUVWXYZ\\^abcdefghijklmnopqrstuvwxyz~"

CharRank(c) == CHOOSE i \in 1..Len(CharOrder) : CharAt(CharOrder, i) = c

RECURSIVE StrLess(_, _)
StrLess(a, b) ==
    IF b = "" THEN FALSE
    ELSE IF a = "" THEN TRUE
    ELSE IF Head(a) = Head(b) THEN StrLess(Tail(a), Tail(b))
    ELSE CharRank(Head(a)) < CharRank(Head(b))

\* encoding/json writes the members of a map sorted by key.
RECURSIVE GoSortMembers(_)
GoSortMembers(m) ==
    IF Len(m) = 0 THEN <<>>
    ELSE LET least == CHOOSE i \in 1..Len(m) : \A j \in 1..Len(m) : ~StrLess(m[j][1], m[i][1])
             rest == [k \in 1..(Len(m) - 1) |-> IF k < least THEN m[k] ELSE m[k + 1]]
         IN  <<m[least]>> \o GoSortMembers(rest)

\* Marshal returns an UnsupportedTypeError for a func and an
\* UnsupportedValueError for NaN and the infinities.
RECURSIVE GoMarshalError(_)
GoMarshalError(v) ==
    CASE v.t = "func" -> "json: unsupported type"
      [] v.t \in {"nan", "inf", "ninf"} -> "json: unsupported value"
      [] v.t = "arr" ->
            IF \E i \in 1..Len(v.a) : GoMarshalError(v.a[i]) # ""
            THEN GoMarshalError(v.a[CHOOSE i \in 1..Len(v.a) : GoMarshalError(v.a[i]) # ""])
            ELSE ""
      [] v.t = "obj" ->
            IF \E i \in 1..Len(v.m) : GoMarshalError(v.m[i][2]) # ""
            THEN GoMarshalError(v.m[CHOOSE i \in 1..Len(v.m) : GoMarshalError(v.m[i][2]) # ""][2])
            ELSE ""
      [] OTHER -> ""

RECURSIVE GoMarshal(_, _)
RECURSIVE GoElements(_, _, _)
RECURSIVE GoMembers(_, _, _)
GoMarshal(v, ind) ==
    CASE v.t = "null" -> "null"
      [] v.t = "bool" -> (IF v.b THEN "true" ELSE "false")
      [] v.t = "int" -> IntText(v.n)
      [] v.t = "float" -> HalfText(v.n2)
      [] v.t = "str" -> GoQuote(v.s)
      [] v.t = "arr" ->
            IF Len(v.a) = 0 THEN "[]"
            ELSE "[\n" \o GoElements(v.a, 1, ind + GoIndent) \o "\n" \o Spaces(ind) \o "]"
      [] v.t = "obj" ->
            IF Len(v.m) = 0 THEN "{}"
            ELSE "{\n" \o GoMembers(GoSortMembers(v.m), 1, ind + GoIndent)
                 \o "\n" \o Spaces(ind) \o "}"

GoElements(a, i, ind) ==
    Spaces(ind) \o GoMarshal(a[i], ind)
    \o (IF i = Len(a) THEN "" ELSE ",\n" \o GoElements(a, i + 1, ind))

GoMembers(m, i, ind) ==
    Spaces(ind) \o GoQuote(m[i][1]) \o ": " \o GoMarshal(m[i][2], ind)
    \o (IF i = Len(m) THEN "" ELSE ",\n" \o GoMembers(m, i + 1, ind))

\* The fields of Response are written in the order of their declaration.
RECURSIVE GoStructFields(_, _, _)
GoStructFields(m, i, ind) ==
    Spaces(ind) \o GoQuote(m[i][1]) \o ": " \o GoMarshal(m[i][2], ind)
    \o (IF i = Len(m) THEN "" ELSE ",\n" \o GoStructFields(m, i + 1, ind))

GoMarshalIndent(fields) ==
    "{\n" \o GoStructFields(fields, 1, GoIndent) \o "\n" \o "}"

(***************************************************************************)
(* examples/response.go                                                    *)
(***************************************************************************)
GoStatusText == "status must be a valid HTTP status code (100-599)"
GoMarshalText == "failed to marshal JSON: "

\* An error return that hands back the text begun so far.
GoFailPartial(kind, txt) ==
    [ok |-> FALSE, out |-> "{", kind |-> kind, cls |-> "error", text |-> txt]

\* The pair (string, error): on an error the string is "".
GoFail(kind, txt) == [ok |-> FALSE, out |-> "", kind |-> kind, cls |-> "error", text |-> txt]

\* A Response that replaces nil data by an empty map.
ResponseNilToMap(data, status, message) ==
    << <<"status", status>>, <<"message", message>>,
       <<"data", IF data.t = "null" THEN EmptyObj ELSE data>> >>

Response(data, status, message) ==
    << <<"status", status>>, <<"message", message>>, <<"data", data>> >>

JsonResponseGo(data, status, message) ==
    IF status.n < StatusMin \/ status.n > StatusMax
    THEN GoFail("InvalidStatusCode", GoStatusText)
    ELSE LET response == Response(data, status, message)
         IN  IF GoMarshalError(data) # ""
             THEN GoFail("SerializationError", GoMarshalText \o GoMarshalError(data))
             ELSE [ok |-> TRUE, out |-> GoMarshalIndent(response), kind |-> "",
                   cls |-> "", text |-> ""]

(***************************************************************************)
(* The caller's decoding of the returned text: JSON.parse in test/test.js, *)
(* json_decode in test/test.php, json.Unmarshal in test/test.go.           *)
(* A parse step yields [ok, v, i]: the value read and the index after it.  *)
(***************************************************************************)
At(s, i) == IF i >= 1 /\ i <= Len(s) THEN SubSeq(s, i, i) ELSE ""

Match(s, i, lit) == i + Len(lit) - 1 <= Len(s) /\ SubSeq(s, i, i + Len(lit) - 1) = lit

ParseFail == [ok |-> FALSE, v |-> Null, i |-> 0]

ParseOk(v, i) == [ok |-> TRUE, v |-> v, i |-> i]

IsWs(c) == c = " " \/ c = "\n"

RECURSIVE SkipWs(_, _)
SkipWs(s, i) == IF IsWs(At(s, i)) THEN SkipWs(s, i + 1) ELSE i

IsDigit(c) == \E k \in 1..Len(Digits) : CharAt(Digits, k) = c

DigitVal(c) == (CHOOSE k \in 1..Len(Digits) : CharAt(Digits, k) = c) - 1

RECURSIVE ParseDigits(_, _, _)
ParseDigits(s, i, acc) ==
    IF IsDigit(At(s, i)) THEN ParseDigits(s, i + 1, acc * 10 + DigitVal(At(s, i)))
    ELSE [n |-> acc, i |-> i]

\* A number: an integer, or an integer and the fraction .0 or .5 (the only
\* fractions the encoders above write).
ParseNumber(s, i) ==
    LET neg == At(s, i) = "-"
        j == IF neg THEN i + 1 ELSE i
        sign == IF neg THEN 0 - 1 ELSE 1
    IN  IF ~IsDigit(At(s, j)) THEN ParseFail
        ELSE LET d == ParseDigits(s, j, 0)
             IN  IF At(s, d.i) # "." THEN ParseOk(IntVal(sign * d.n), d.i)
                 ELSE IF IsDigit(At(s, d.i + 2)) THEN ParseFail
                 ELSE IF At(s, d.i + 1) = "0" THEN ParseOk(IntVal(sign * d.n), d.i + 2)
                 ELSE IF At(s, d.i + 1) = "5" THEN ParseOk(Float(sign * (2 * d.n + 1)), d.i + 2)
                 ELSE ParseFail

\* The character a \uXXXX escape stands for.
UnicodeEscape(hex) ==
    CASE hex = "003c" -> "<"
      [] hex = "fffd" -> Replacement
      [] hex = "d800" -> BadUnit
      [] OTHER -> ""

\* The body of a string, from the character after its opening quote.
RECURSIVE ParseStringBody(_, _, _)
ParseStringBody(s, i, acc) ==
    LET c == At(s, i)
        e == At(s, i + 1)
    IN  CASE c = "" -> ParseFail
          [] c = "\n" -> ParseFail
          [] c = "\"" -> ParseOk(Str(acc), i + 1)
          [] c = "\\" ->
                (CASE e = "\"" -> ParseStringBody(s, i + 2, acc \o "\"")
                   [] e = "\\" -> ParseStringBody(s, i + 2, acc \o "\\")
                   [] e = "/" -> ParseStringBody(s, i + 2, acc \o "/")
                   [] e = "n" -> ParseStringBody(s, i + 2, acc \o "\n")
                   [] e = "u" ->
                        IF i + 5 <= Len(s) /\ UnicodeEscape(SubSeq(s, i + 2, i + 5)) # ""
                        THEN ParseStringBody(s, i + 6,
                                             acc \o UnicodeEscape(SubSeq(s, i + 2, i + 5)))
                        ELSE ParseFail
                   [] OTHER -> ParseFail)
          [] OTHER -> ParseStringBody(s, i + 1, acc \o c)

RECURSIVE ParseValue(_, _)
RECURSIVE ParseElements(_, _, _)
RECURSIVE ParseMembers(_, _, _)
ParseValue(s, i0) ==
    LET i == SkipWs(s, i0)
        c == At(s, i)
    IN  CASE c = "{" ->
                IF At(s, SkipWs(s, i + 1)) = "}" THEN ParseOk(Obj(<<>>), SkipWs(s, i + 1) + 1)
                ELSE ParseMembers(s, SkipWs(s, i + 1), <<>>)
          [] c = "[" ->
                IF At(s, SkipWs(s, i + 1)) = "]" THEN ParseOk(Arr(<<>>), SkipWs(s, i + 1) + 1)
                ELSE ParseElements(s, i + 1, <<>>)
          [] c = "\"" -> ParseStringBody(s, i + 1, "")
          [] Match(s, i, "true") -> ParseOk(Bool(TRUE), i + 4)
          [] Match(s, i, "false") -> ParseOk(Bool(FALSE), i + 5)
          [] Match(s, i, "null") -> ParseOk(Null, i + 4)
          [] OTHER -> ParseNumber(s, i)

ParseElements(s, i, acc) ==
    LET r == ParseValue(s, i)
        j == SkipWs(s, r.i)
    IN  IF ~r.ok THEN ParseFail
        ELSE IF At(s, j) = "," THEN ParseElements(s, j + 1, Append(acc, r.v))
        ELSE IF At(s, j) = "]" THEN ParseOk(Arr(Append(acc, r.v)), j + 1)
        ELSE ParseFail

ParseMembers(s, i, acc) ==
    IF At(s, i) # "\"" THEN ParseFail
    ELSE LET k == ParseStringBody(s, i + 1, "")
             colon == SkipWs(s, k.i)
         IN  IF ~k.ok \/ At(s, colon) # ":" THEN ParseFail
             ELSE LET r == ParseValue(s, colon + 1)
                      j == SkipWs(s, r.i)
                  IN  IF ~r.ok THEN ParseFail
                      ELSE IF At(s, j) = ","
                      THEN ParseMembers(s, SkipWs(s, j + 1), Append(acc, <<k.v.s, r.v>>))
                      ELSE IF At(s, j) = "}"
                      THEN ParseOk(Obj(Append(acc, <<k.v.s, r.v>>)), j + 1)
                      ELSE ParseFail

NotDecoded == [ok |-> FALSE, v |-> Undefined]

Decode(s) ==
    LET r == ParseValue(s, 1)
    IN  IF r.ok /\ SkipWs(s, r.i) = Len(s) + 1 THEN [ok |-> TRUE, v |-> r.v] ELSE NotDecoded

\* The member of a decoded object named key; undefined when there is none or
\* the value is no object.
Member(v, key) ==
    IF v.t = "obj" /\ \E i \in 1..Len(v.m) : v.m[i][1] = key
    THEN v.m[CHOOSE i \in 1..Len(v.m) : v.m[i][1] = key][2]
    ELSE Undefined

(***************************************************************************)
(* The arguments of a call                                                 *)
(***************************************************************************)
MaxMsgLen == 1

MsgChars == {"a", "\"", "\\", "/", "<", "\n", BadUnit}

RECURSIVE TextsUpTo(_)
TextsUpTo(n) ==
    IF n = 0 THEN {""}
    ELSE LET shorter == TextsUpTo(n - 1)
         IN  shorter \cup {p \o c : p \in shorter, c \in MsgChars}

Texts == TextsUpTo(MaxMsgLen)

User == Obj(<< <<"user", Str("John")>> >>)

\* The payload of the tests named "Complex data structure".
Complex ==
    Obj(<< <<"users", Arr(<< Obj(<< <<"id", IntVal(1)>>, <<"name", Str("John")>> >>),
                            Obj(<< <<"id", IntVal(2)>>, <<"name", Str("Jane")>> >>) >>)>>,
           <<"meta", Obj(<< <<"total", IntVal(2)>>, <<"page", IntVal(1)>> >>)>> >>)

\* Payloads every variant can be called with.
SharedData ==
    {EmptyObj, User, Complex, EmptyArr, Arr(<<IntVal(1), Str("/")>>), Str(""), Str("invalid"),
     IntVal(0), IntVal(1), Bool(FALSE), Bool(TRUE), Null}

SharedStatus == {IntVal(n) : n \in {0 - 1, 0, 99, 100, 200, 599, 600}}

JsData == SharedData \cup {Undefined, NaN, Float(3), Func, Cyclic, Obj(<< <<"f", Func>> >>)}

JsStatus ==
    SharedStatus \cup {Undefined, Float(401), Float(199), Float(1199), NaN, Inf, NegInf,
                       Str("invalid"), Bool(TRUE), Null}

JsMessage == {Str(m) : m \in Texts} \cup {Undefined, IntVal(123), Null, Bool(TRUE)}

PhpData == SharedData \cup {Undefined, PhpObject, Float(3), Arr(<<NaN>>)}

PhpStatus ==
    SharedStatus \cup {Undefined, Float(401), Float(400), Float(199), Float(1199),
                       Str("invalid"), Str("200"), Bool(TRUE), Null}

PhpMessage == {Str(m) : m \in Texts} \cup {Undefined, IntVal(123), Null, Bool(TRUE)}

\* Go is typed: status is an int, message a string, data any value.
GoData == SharedData \cup {Float(3), NaN, Func}

GoStatus == SharedStatus

GoMessage == {Str(m) : m \in Texts}

JsLangs == {"js", "ts", "test.ts"}

Langs == JsLangs \cup {"php", "go"}

Inputs(l) ==
    CASE l \in JsLangs -> [data : JsData, status : JsStatus, message : JsMessage]
      [] l = "php" -> [data : PhpData, status : PhpStatus, message : PhpMessage]
      [] l = "go" -> [data : GoData, status : GoStatus, message : GoMessage]

(***************************************************************************)
(* Callers that run at the same time                                       *)
(***************************************************************************)
NumCallers == 2

Procs == 1..NumCallers

\* The variants with callers in one process: goroutines in Go, callbacks of
\* one event loop in JavaScript.
ConcLangs == {"js", "go"}

ConcInputs ==
    {[data |-> User, status |-> IntVal(200), message |-> Str("a")],
     [data |-> Null, status |-> IntVal(404), message |-> Str("<")],
     [data |-> Func, status |-> IntVal(200), message |-> Str("a")],
     [data |-> User, status |-> IntVal(600), message |-> Str("a")]}

NoResponse == <<>>

\* No caller has started.
NoCallers ==
    /\ clang = [p \in Procs |-> "go"]
    /\ cargs = [p \in Procs |-> [data |-> Null, status |-> IntVal(200), message |-> Str("")]]
    /\ cpc = [p \in Procs |-> "idle"]
    /\ cresponse = [p \in Procs |-> NoResponse]
    /\ cresult = [p \in Procs |-> NoResult]

\* The exit code of a process that has not exited.
Running == 0 - 1

\* No test program runs.
NoTestProgram ==
    /\ tprog = "test.js"
    /\ tlines = <<>>
    /\ tpassed = 0
    /\ texit = Running

\* The test runner does not run.
NoRunner ==
    /\ rtarget = ""
    /\ files = {}
    /\ runtimes = {}
    /\ tsNode = FALSE
    /\ rpc = "idle"
    /\ ridx = 0
    /\ rresults = <<>>
    /\ recorded = <<>>
    /\ rlog = <<>>
    /\ rexit = Running

\* testLanguage is not called.
NoTester ==
    /\ lpc = "idle"
    /\ llog = <<>>
    /\ lreturn = "none"

\* None of the programs around the builder runs.
NoTools == NoTestProgram /\ NoRunner /\ NoTester

(***************************************************************************)
(* One call                                                                *)
(***************************************************************************)
Init ==
    /\ lang \in Langs
    /\ args \in Inputs(lang)
    /\ pc = "call"
    /\ result = NoResult
    /\ decoded = NotDecoded
    /\ history = <<>>
    /\ stdout = <<>>
    /\ callerData = args.data
    /\ NoCallers
    /\ NoTools

\* What the function writes to the standard output: the variants return the
\* text and write nothing (the examples print it, under the main guard).
Written(l, r) == <<>>

\* A function that assigns the normalised payload to a parameter taken by
\* reference.
DataAfterCallByReference(l, d) == IF l = "php" /\ d.t = "null" THEN EmptyArr ELSE d

\* The caller's value after the call: the parameter is a copy (PHP), a local
\* binding (JavaScript) or an interface value (Go), and the function writes
\* to no member of it.
DataAfterCall(l, d) == d

Returns(l, r) ==
    /\ pc = "call"
    /\ lang = l
    /\ result' = r
    /\ pc' = "returned"
    /\ history' = Append(history, [args |-> args, result |-> r])
    /\ stdout' = stdout \o Written(l, r)
    /\ callerData' = DataAfterCall(l, callerData)
    /\ UNCHANGED <<lang, args, decoded>>
    /\ UNCHANGED concVars
    /\ UNCHANGED toolVars

CallJs == Returns("js", jsonResponseJs(args.data, args.status, args.message))

CallTs == Returns("ts", jsonResponseTs(args.data, args.status, args.message))

CallTestTs == Returns("test.ts", jsonResponseTestTs(args.data, args.status, args.message))

CallPhp == Returns("php", jsonResponsePhp(args.data, args.status, args.message))

CallGo == Returns("go", JsonResponseGo(args.data, args.status, args.message))

\* The caller decodes the text it was given.
Parse ==
    /\ pc = "returned"
    /\ result.ok
    /\ decoded' = Decode(result.out)
    /\ pc' = "parsed"
    /\ UNCHANGED <<lang, args, result, history, stdout, callerData>>
    /\ UNCHANGED concVars
    /\ UNCHANGED toolVars

Next == CallJs \/ CallTs \/ CallTestTs \/ CallPhp \/ CallGo \/ Parse

Spec == Init /\ [][Next]_vars

(***************************************************************************)
(* A sequence of calls                                                     *)
(***************************************************************************)
MaxCalls == 3

\* A payload the variant's encoder fails on.
Unencodable(l) ==
    CASE l \in JsLangs -> Cyclic
      [] l = "php" -> Arr(<<NaN>>)
      [] l = "go" -> Func

SeqInputs(l) ==
    [data : {User, Null, Unencodable(l)}, status : {IntVal(200), IntVal(600)},
     message : {Str("a")}]

InitSeq ==
    /\ lang \in Langs
    /\ args \in SeqInputs(lang)
    /\ pc = "call"
    /\ result = NoResult
    /\ decoded = NotDecoded
    /\ history = <<>>
    /\ stdout = <<>>
    /\ callerData = args.data
    /\ NoCallers
    /\ NoTools

\* The caller goes on to its next call, after a result or after an error.
NextCall ==
    /\ pc \in {"returned", "parsed"}
    /\ Len(history) < MaxCalls
    /\ args' \in SeqInputs(lang)
    /\ callerData' = args'.data
    /\ pc' = "call"
    /\ result' = NoResult
    /\ decoded' = NotDecoded
    /\ UNCHANGED <<lang, history, stdout>>
    /\ UNCHANGED concVars
    /\ UNCHANGED toolVars

NextSeq == Next \/ NextCall

SpecSeq == InitSeq /\ [][NextSeq]_vars

(***************************************************************************)
(* Concurrent calls                                                        *)
(***************************************************************************)
InitConc ==
    /\ lang = "go"
    /\ args = [data |-> Null, status |-> IntVal(200), message |-> Str("")]
    /\ pc = "concurrent"
    /\ result = NoResult
    /\ decoded = NotDecoded
    /\ history = <<>>
    /\ stdout = <<>>
    /\ callerData = Null
    /\ clang \in [Procs -> ConcLangs]
    /\ cargs \in [Procs -> ConcInputs]
    /\ cpc = [p \in Procs |-> "start"]
    /\ cresponse = [p \in Procs |-> NoResponse]
    /\ cresult = [p \in Procs |-> NoResult]
    /\ NoTools

\* One Response value for all the invocations, as a package-level variable
\* would be.
ResponseShared(p) == 1

\* The Response an invocation works on: response := Response{...} declares
\* a variable of the invocation.
ResponseOf(p) == p

\* if status < 100 || status > 599 { return "", fmt.Errorf(...) }
GoCheckStatus(p) ==
    /\ cpc[p] = "start"
    /\ clang[p] = "go"
    /\ IF cargs[p].status.n < StatusMin \/ cargs[p].status.n > StatusMax
       THEN /\ cresult' = [cresult EXCEPT ![p] = GoFail("InvalidStatusCode", GoStatusText)]
            /\ cpc' = [cpc EXCEPT ![p] = "done"]
       ELSE /\ cpc' = [cpc EXCEPT ![p] = "construct"]
            /\ UNCHANGED cresult
    /\ UNCHANGED <<clang, cargs, cresponse>>
    /\ UNCHANGED seqVars
    /\ UNCHANGED toolVars

\* response := Response{Status: status, Message: message, Data: data}
GoConstruct(p) ==
    /\ cpc[p] = "construct"
    /\ cresponse' = [cresponse EXCEPT ![ResponseOf(p)] =
                         Response(cargs[p].data, cargs[p].status, cargs[p].message)]
    /\ cpc' = [cpc EXCEPT ![p] = "marshal"]
    /\ UNCHANGED <<clang, cargs, cresult>>
    /\ UNCHANGED seqVars
    /\ UNCHANGED toolVars

\* jsonString, err := json.MarshalIndent(response, "", "  ") and the two
\* returns that follow it.
GoMarshalResponse(p) ==
    /\ cpc[p] = "marshal"
    /\ LET r == cresponse[ResponseOf(p)]
           err == GoMarshalError(r[3][2])
       IN  cresult' = [cresult EXCEPT ![p] =
                          IF err # "" THEN GoFail("SerializationError", GoMarshalText \o err)
                          ELSE Return(GoMarshalIndent(r))]
    /\ cpc' = [cpc EXCEPT ![p] = "done"]
    /\ UNCHANGED <<clang, cargs, cresponse>>
    /\ UNCHANGED seqVars
    /\ UNCHANGED toolVars

\* A JavaScript call runs to its end before another callback starts.
JsRun(p) ==
    /\ cpc[p] = "start"
    /\ clang[p] = "js"
    /\ cresult' = [cresult EXCEPT ![p] =
                      jsonResponseJs(cargs[p].data, cargs[p].status, cargs[p].message)]
    /\ cpc' = [cpc EXCEPT ![p] = "done"]
    /\ UNCHANGED <<clang, cargs, cresponse>>
    /\ UNCHANGED seqVars
    /\ UNCHANGED toolVars

NextConc ==
    \E p \in Procs : GoCheckStatus(p) \/ GoConstruct(p) \/ GoMarshalResponse(p) \/ JsRun(p)

SpecConc == InitConc /\ [][NextConc]_vars

(***************************************************************************)
(* The test programs: test/test.js, test/test.ts, test/test.php (the one   *)
(* written with functions and the one written as the class                 *)
(* JsonResponseTest) and the Go test program                               *)
(***************************************************************************)
\* No call of the builder is followed, by one caller or by several.
NoCall ==
    /\ lang = "go"
    /\ args = [data |-> Null, status |-> IntVal(200), message |-> Str("")]
    /\ pc = "idle"
    /\ result = NoResult
    /\ decoded = NotDecoded
    /\ history = <<>>
    /\ stdout = <<>>
    /\ callerData = Null
    /\ NoCallers

\* The number of tests of a test program.
NumTests == 4

\* The programs whose test function only prints, and the programs that count
\* the passed tests and hand the count to exit.
PrintingPrograms == {"test.js", "test.ts", "test.php"}

CountingPrograms == {"JsonResponseTest", "test.go"}

TestPrograms == PrintingPrograms \cup CountingPrograms

InitTest ==
    /\ NoCall
    /\ NoRunner
    /\ NoTester
    /\ tprog \in TestPrograms
    /\ tlines = <<>>
    /\ tpassed = 0
    /\ texit = Running

\* test(description, fn): fn runs; the line is [PASS] when it returns and
\* [FAIL] when it throws (Go: when it returns an error). Whether it throws is
\* up to the builder under test.
RunTest(progs, counts) ==
    /\ tprog \in progs
    /\ texit = Running
    /\ Len(tlines) < NumTests
    /\ \E line \in {"[PASS]", "[FAIL]"} :
          /\ tlines' = Append(tlines, line)
          /\ tpassed' = IF counts /\ line = "[PASS]" THEN tpassed + 1 ELSE tpassed
    /\ UNCHANGED <<tprog, texit>>
    /\ UNCHANGED <<seqVars, concVars, runnerVars, testerVars>>

\* The program ends after its last test.
Exits(progs, code) ==
    /\ tprog \in progs
    /\ texit = Running
    /\ Len(tlines) = NumTests
    /\ texit' = code
    /\ UNCHANGED <<tprog, tlines, tpassed>>
    /\ UNCHANGED <<seqVars, concVars, runnerVars, testerVars>>

\* if passedTests == totalTests { os.Exit(0) } else { os.Exit(1) };
\* exit($success ? 0 : 1) with $success = passedTests === totalTests
ExitCodeOf(passedTests, totalTests) == IF passedTests = totalTests THEN 0 ELSE 1

TestJs == RunTest({"test.js"}, FALSE)

TestTs == RunTest({"test.ts"}, FALSE)

\* test.php counts the passed tests and prints the count.
TestPhp == RunTest({"test.php"}, TRUE)

TestPhpClass == RunTest({"JsonResponseTest"}, TRUE)

TestGo == RunTest({"test.go"}, TRUE)

\* The last statement prints a line; the program ends with exit code 0.
EndJs == Exits({"test.js"}, 0)

EndTs == Exits({"test.ts"}, 0)

EndPhp == Exits({"test.php"}, 0)

EndPhpClass == Exits({"JsonResponseTest"}, ExitCodeOf(tpassed, Len(tlines)))

EndGo == Exits({"test.go"}, ExitCodeOf(tpassed, Len(tlines)))

NextTest ==
    \/ TestJs \/ TestTs \/ TestPhp \/ TestPhpClass \/ TestGo
    \/ EndJs \/ EndTs \/ EndPhp \/ EndPhpClass \/ EndGo

SpecTest == InitTest /\ [][NextTest]_vars

(***************************************************************************)
(* test/run-tests.js: the unified test runner                              *)
(***************************************************************************)
\* The first four entries of languageConfigs, in its order; the entries
\* after them (go, rust, java, csharp, ruby) are handled by the same code.
languageConfigs == <<"javascript", "python", "php", "typescript">>

RunnerLangs == {languageConfigs[i] : i \in 1..Len(languageConfigs)}

NoLanguage == "none"

\* getLanguageByAlias: the language with this alias, or null.
getLanguageByAlias(alias) ==
    CASE alias \in {"js", "javascript", "node"} -> "javascript"
      [] alias \in {"py", "python", "python3"} -> "python"
      [] alias = "php" -> "php"
      [] alias \in {"ts", "typescript"} -> "typescript"
      [] OTHER -> NoLanguage

\* The first command-line argument: none (all the languages), an alias, or
\* a word that is no alias.
Targets == {"", "js", "node", "py", "php", "ts", "cobol"}

\* discoverAvailableLanguages: the configured languages that have a test
\* file, in the order of languageConfigs.
discoverAvailableLanguages == SelectSeq(languageConfigs, LAMBDA l : l \in files)

AllMode == rtarget = ""

\* The language runLanguageTests is called with.
Current ==
    IF AllMode THEN discoverAvailableLanguages[ridx] ELSE getLanguageByAlias(rtarget)

Event(what, l) == <<what, l>>

InitRunner ==
    /\ NoCall
    /\ NoTestProgram
    /\ NoTester
    /\ rtarget \in Targets
    /\ files \in SUBSET RunnerLangs
    /\ runtimes \in SUBSET RunnerLangs
    /\ tsNode \in BOOLEAN
    /\ rpc = "start"
    /\ ridx = 0
    /\ rresults = <<>>
    /\ recorded = <<>>
    /\ rlog = <<>>
    /\ rexit = Running

RunnerFrame == UNCHANGED <<rtarget, files, runtimes, tsNode>>

NoOtherProgram == UNCHANGED <<seqVars, concVars, testVars, testerVars>>

\* process.exit(code)
Exit(code, events) ==
    /\ rexit' = code
    /\ rpc' = "exited"
    /\ rlog' = rlog \o events \o <<Event("exit", "")>>

\* run, single language: an unknown alias ends the run with code 1.
RunSingle ==
    /\ rpc = "start"
    /\ ~AllMode
    /\ IF getLanguageByAlias(rtarget) = NoLanguage
       THEN Exit(1, <<Event("[ERROR] Unknown language", "")>>)
       ELSE /\ rpc' = "run"
            /\ UNCHANGED <<rlog, rexit>>
    /\ UNCHANGED <<ridx, rresults, recorded>>
    /\ RunnerFrame
    /\ NoOtherProgram

\* run, all languages: with no test file the run ends with code 1.
RunAll ==
    /\ rpc = "start"
    /\ AllMode
    /\ IF Len(discoverAvailableLanguages) = 0
       THEN /\ Exit(1, <<Event("[ERROR] No test files found", "")>>)
            /\ UNCHANGED ridx
       ELSE /\ rpc' = "run"
            /\ ridx' = 1
            /\ UNCHANGED <<rlog, rexit>>
    /\ UNCHANGED <<rresults, recorded>>
    /\ RunnerFrame
    /\ NoOtherProgram

\* The loop goes on while i < availableLanguages.length; the summary comes
\* after the loop.
AfterLanguageFirstOnly(i, n) == "summary"

AfterLanguage(i, n) == IF i < n THEN "run" ELSE "summary"

\* A code that takes a skipped language for a passed one.
ExitCodeOfResultSkipPasses(success) == IF success = "false" THEN 1 ELSE 0

\* process.exit(success ? 0 : 1): null counts as false
ExitCodeOfResult(success) == IF success = "true" THEN 0 ELSE 1

\* runLanguageTests returns v: in a run of one language the runner exits
\* with success ? 0 : 1, in a run of all it pushes v and goes on.
Returned(v, events) ==
    IF AllMode
    THEN /\ rresults' = Append(rresults, v)
         /\ rpc' = AfterLanguage(ridx, Len(discoverAvailableLanguages))
         /\ ridx' = ridx + 1
         /\ rlog' = rlog \o events
         /\ UNCHANGED rexit
    ELSE /\ Exit(ExitCodeOfResult(v), events)
         /\ UNCHANGED <<rresults, ridx>>

\* runLanguageTests up to the await of checkCommand: without the test file
\* it prints [SKIP] and returns null, with it the version command starts.
BeginLanguage ==
    /\ rpc = "run"
    /\ IF Current \notin files
       THEN Returned("null", <<Event("[INFO] Running", Current), Event("[SKIP]", Current)>>)
       ELSE /\ rpc' = "checking"
            /\ rlog' = rlog \o <<Event("[INFO] Running", Current), Event("check", Current)>>
            /\ UNCHANGED <<ridx, rresults, rexit>>
    /\ UNCHANGED recorded
    /\ RunnerFrame
    /\ NoOtherProgram

\* checkCommand resolved false: the runtime is missing, null is returned.
RuntimeMissing ==
    /\ rpc = "checking"
    /\ Current \notin runtimes
    /\ Returned("null", <<Event("checked", Current), Event("[ERROR] runtime not found", Current)>>)
    /\ UNCHANGED recorded
    /\ RunnerFrame
    /\ NoOtherProgram

\* checkCommand resolved true and the test process started.
StartTests ==
    /\ rpc = "checking"
    /\ Current \in runtimes
    /\ rpc' = "testing"
    /\ rlog' = rlog \o <<Event("checked", Current), Event("test", Current)>>
    /\ UNCHANGED <<ridx, rresults, recorded, rexit>>
    /\ RunnerFrame
    /\ NoOtherProgram

\* checkCommand resolved true and spawn of the test process emitted
\* 'error': the catch prints and returns false, nothing is recorded.
SpawnFails ==
    /\ rpc = "checking"
    /\ Current \in runtimes
    /\ Returned("false", <<Event("checked", Current), Event("[ERROR] tests failed", Current)>>)
    /\ UNCHANGED recorded
    /\ RunnerFrame
    /\ NoOtherProgram

\* The exit codes the test process of a language can end with: npx without
\* ts-node cannot run test.ts and ends with a code that is not 0.
TestExitCodes(l) == IF l = "typescript" /\ ~tsNode THEN {1} ELSE {0, 1}

\* The test process closed: the result is recorded and success returned.
TestsClose ==
    /\ rpc = "testing"
    /\ \E code \in TestExitCodes(Current) :
          /\ recorded' = Append(recorded, [language |-> Current, success |-> code = 0])
          /\ Returned(IF code = 0 THEN "true" ELSE "false",
                      <<Event(IF code = 0 THEN "exit 0" ELSE "exit 1", Current)>>)
    /\ RunnerFrame
    /\ NoOtherProgram

totalRun == Len(recorded)

totalPassed == Cardinality({i \in 1..Len(recorded) : recorded[i].success})

\* The last line of printSummary.
SummaryLine ==
    IF totalPassed = totalRun /\ totalRun > 0 THEN "[SUCCESS] All tests passed!"
    ELSE IF totalPassed = 0 THEN "[ERROR] All tests failed."
    ELSE "[WARNING] Some tests failed."

printSummary ==
    /\ rpc = "summary"
    /\ rpc' = "verdict"
    /\ rlog' = rlog \o <<Event("summary", ""), Event(SummaryLine, "")>>
    /\ UNCHANGED <<ridx, rresults, recorded, rexit>>
    /\ RunnerFrame
    /\ NoOtherProgram

\* A filter that keeps the results of the skipped languages.
attemptedResultsUnfiltered == rresults

\* results.filter(result => result !== null)
attemptedResults == SelectSeq(rresults, LAMBDA v : v # "null")

\* A verdict that passes when some attempted language passed.
SomePassed(attempted) == \E i \in 1..Len(attempted) : attempted[i] = "true"

\* attemptedResults.length > 0 && attemptedResults.every(result => result === true)
AllPassed(attempted) ==
    Len(attempted) > 0 /\ \A i \in 1..Len(attempted) : attempted[i] = "true"

\* The end of run, all languages.
Verdict ==
    /\ rpc = "verdict"
    /\ IF Len(attemptedResults) = 0
       THEN Exit(1, <<Event("[ERROR] No languages available", "")>>)
       ELSE Exit(IF AllPassed(attemptedResults) THEN 0 ELSE 1, <<>>)
    /\ UNCHANGED <<ridx, rresults, recorded>>
    /\ RunnerFrame
    /\ NoOtherProgram

NextRunner ==
    \/ RunSingle \/ RunAll \/ BeginLanguage \/ RuntimeMissing \/ StartTests \/ SpawnFails
    \/ TestsClose \/ printSummary \/ Verdict

SpecRunner == InitRunner /\ [][NextRunner]_vars

(***************************************************************************)
(* scripts/test-language.js: testLanguage(language)                        *)
(***************************************************************************)
InitTester ==
    /\ NoCall
    /\ NoTestProgram
    /\ NoRunner
    /\ lpc = "tests"
    /\ llog = <<>>
    /\ lreturn = "none"

\* The ways a command ends: it closes with code 0, it closes with another
\* code, or spawn emits 'error' and runCommand rejects.
Endings == {"0", "1", "error"}

\* await this.runCommand(...) at the line at: the command runs and ends;
\* the next line is ok after code 0, failed after another code, and thrown
\* after a rejection.
Await(at, command, ok, failed, thrown) ==
    /\ lpc = at
    /\ \E ending \in Endings :
          /\ llog' = Append(llog, <<command, ending>>)
          /\ lpc' = CASE ending = "0" -> ok
                      [] ending = "1" -> failed
                      [] ending = "error" -> thrown
    /\ UNCHANGED lreturn
    /\ UNCHANGED <<seqVars, concVars, testVars, runnerVars>>

\* return value, or the rejection of the promise of testLanguage
Returning(at, value) ==
    /\ lpc = at
    /\ lpc' = "done"
    /\ lreturn' = value
    /\ UNCHANGED llog
    /\ UNCHANGED <<seqVars, concVars, testVars, runnerVars>>

\* A testDockerSupport without its try and catch.
DockerRethrows == "throws"

\* catch (error) of testDockerSupport: a warning, then step 3 follows.
DockerCatch == "matrix"

\* catch (error) of generateConfigurations: a warning, then the return.
ConfigCatch == "passed"

\* Step 1: node test/run-tests.js language
RunTests == Await("tests", "run-tests", "dockerfile", "failed", "throws")

\* if (!testResult.success) return false
ReturnFalse == Returning("failed", "false")

\* runCommand rejected outside any try: testLanguage rejects.
Throws == Returning("throws", "threw")

\* Step 2, testDockerSupport: the two generators, whose codes are not read
GenerateDockerfile ==
    Await("dockerfile", "generate-dockerfile --available", "compose", "compose", DockerCatch)

GenerateCompose ==
    Await("compose", "generate-docker-compose --override", "build", "build", DockerCatch)

\* docker build: the container runs only after a build with code 0
DockerBuild == Await("build", "docker build", "container", "matrix", DockerCatch)

DockerRun == Await("container", "docker run", "rmi", "rmi", DockerCatch)

DockerRmi == Await("rmi", "docker rmi", "matrix", "matrix", DockerCatch)

\* Step 3, generateConfigurations
GenerateMatrix ==
    Await("matrix", "generate-dockerfile --matrix", "list", "list", ConfigCatch)

GenerateList ==
    Await("list", "generate-docker-compose --list", "ci", "ci", ConfigCatch)

UpdateCiMatrix == Await("ci", "update-ci-matrix", "passed", "passed", ConfigCatch)

\* return true
ReturnTrue == Returning("passed", "true")

NextTester ==
    \/ RunTests \/ ReturnFalse \/ Throws
    \/ GenerateDockerfile \/ GenerateCompose \/ DockerBuild \/ DockerRun \/ DockerRmi
    \/ GenerateMatrix \/ GenerateList \/ UpdateCiMatrix \/ ReturnTrue

SpecTester == InitTester /\ [][NextTester]_vars

(***************************************************************************)
(* What the specification says of the arguments                            *)
(***************************************************************************)
Omitted(v) == v.t = "undefined"

\* An integer status within [100, 599].
IntegerInRange(v) == v.t = "int" /\ v.n >= 100 /\ v.n <= 599

\* A number below 100 or above 599.
OutOfRange(v) ==
    \/ v.t = "int" /\ (v.n < 100 \/ v.n > 599)
    \/ v.t = "float" /\ (v.n2 < 200 \/ v.n2 > 1198)
    \/ v.t \in {"inf", "ninf"}

StatusAccepted == Omitted(args.status) \/ IntegerInRange(args.status)

MessageAccepted == Omitted(args.message) \/ args.message.t = "str"

\* A text every code unit of which is valid.
WellFormed(v) == v.t = "str" /\ ~HasBadUnit(v.s)

\* A payload made of mappings, sequences, strings, numbers and booleans.
RECURSIVE PlainJson(_)
PlainJson(v) ==
    CASE v.t \in {"bool", "int", "float"} -> TRUE
      [] v.t = "str" -> ~HasBadUnit(v.s)
      [] v.t = "arr" -> \A i \in 1..Len(v.a) : PlainJson(v.a[i]) \/ v.a[i].t = "null"
      [] v.t = "obj" -> \A i \in 1..Len(v.m) : PlainJson(v.m[i][2]) \/ v.m[i][2].t = "null"
      [] OTHER -> FALSE

\* The value with the members of every object in the order of their keys:
\* two JSON values are the same when these agree.
RECURSIVE Canon(_)
Canon(v) ==
    CASE v.t = "arr" -> Arr([i \in 1..Len(v.a) |-> Canon(v.a[i])])
      [] v.t = "obj" ->
            Obj(GoSortMembers([i \in 1..Len(v.m) |-> <<v.m[i][1], Canon(v.m[i][2])>>]))
      [] OTHER -> v

Called == pc # "call"

Permissive == JsLangs \cup {"go"}

ValidationKinds == {"InvalidStatusCode", "InvalidMessageType", "InvalidDataType"}

\* The payloads the variant's validation accepts: any in the permissive
\* variants, an array or null (or none) in PHP.
PayloadAccepted ==
    \/ lang \in Permissive /\ (PlainJson(args.data) \/ args.data.t \in {"null", "undefined"})
    \/ lang = "php" /\ (args.data.t \in {"null", "undefined"}
                        \/ (args.data.t \in {"arr", "obj"} /\ PlainJson(args.data)))

\* The messages that are valid text in the variant: any JavaScript string,
\* a Go or PHP string that is valid UTF-8.
MessageIsText == args.message.t = "str" /\ (lang \in JsLangs \/ WellFormed(args.message))

StatusAndMessageDecoded ==
    /\ result.ok
    /\ pc = "parsed" =>
          /\ decoded.ok
          /\ Member(decoded.v, "status") = args.status
          /\ Member(decoded.v, "message") = args.message

(***************************************************************************)
(* C1 as stated: for every integer status in [100, 599], every string      *)
(* message and every serializable payload, in every variant, the call      *)
(* succeeds and the decoded status and message are the ones passed.        *)
(***************************************************************************)
C1_EveryPayloadSucceeds ==
    (/\ Called
     /\ IntegerInRange(args.status)
     /\ args.message.t = "str"
     /\ PlainJson(args.data) \/ args.data.t = "null")
    => StatusAndMessageDecoded

(***************************************************************************)
(* C1 amended: for every integer status in [100, 599], every message that  *)
(* is a string of valid text in the variant and every serializable payload *)
(* the variant accepts, the call succeeds and the decoded status and       *)
(* message are the ones passed.                                            *)
(***************************************************************************)
C1_AcceptedPayloadSucceeds ==
    (Called /\ IntegerInRange(args.status) /\ MessageIsText /\ PayloadAccepted)
    => StatusAndMessageDecoded

C1_Witness ==
    /\ pc = "parsed"
    /\ args.status = IntVal(599)
    /\ args.message = Str("\"")
    /\ args.data = Complex
    /\ Member(decoded.v, "status") = IntVal(599)
    /\ Member(decoded.v, "message") = Str("\"")

(***************************************************************************)
(* C2: a status below 100 or above 599 fails with InvalidStatusCode and    *)
(* the text "valid HTTP status code", whatever data and message are.       *)
(***************************************************************************)
C2_OutOfRangeRejected ==
    (Called /\ OutOfRange(args.status))
    => /\ ~result.ok
       /\ result.kind = "InvalidStatusCode"
       /\ Contains(result.text, "valid HTTP status code")

C2_Witness ==
    /\ pc = "returned"
    /\ args.status = IntVal(99)
    /\ args.message = IntVal(123)
    /\ args.data = Func
    /\ result.kind = "InvalidStatusCode"

(***************************************************************************)
(* C3 as stated: a status that is not an integer (of another type, a       *)
(* fraction, NaN) fails with InvalidStatusCode.                            *)
(***************************************************************************)
C3_NonIntegerStatusRejected ==
    (Called /\ ~Omitted(args.status) /\ args.status.t # "int")
    => ~result.ok /\ result.kind = "InvalidStatusCode"

(***************************************************************************)
(* C4: with a valid status, a message that is not a string fails with      *)
(* InvalidMessageType and the text "Message must be a string".             *)
(***************************************************************************)
C4_NonStringMessageRejected ==
    (Called /\ StatusAccepted /\ ~MessageAccepted)
    => /\ ~result.ok
       /\ result.kind = "InvalidMessageType"
       /\ Contains(result.text, "Message must be a string")

C4_Witness ==
    /\ pc = "returned"
    /\ args.status = IntVal(200)
    /\ args.message = IntVal(123)
    /\ result.kind = "InvalidMessageType"

(***************************************************************************)
(* C5 as stated: a call with the arguments omitted succeeds, and each      *)
(* omitted argument decodes to its default: status 200, message "", data   *)
(* the JSON object {}.                                                     *)
(***************************************************************************)
C5_DefaultsDecoded ==
    /\ (Called /\ Omitted(args.data) /\ Omitted(args.status) /\ Omitted(args.message))
       => result.ok
    /\ pc = "parsed" =>
          /\ Omitted(args.status) => Member(decoded.v, "status") = IntVal(200)
          /\ Omitted(args.message) => Member(decoded.v, "message") = Str("")
          /\ Omitted(args.data) => Member(decoded.v, "data") = EmptyObj

(***************************************************************************)
(* C6 as stated: with a valid status and message, a null payload succeeds  *)
(* and the decoded data is an empty mapping, never null.                   *)
(***************************************************************************)
C6_NullDataIsEmptyMapping ==
    (/\ Called
     /\ args.data.t = "null"
     /\ StatusAccepted
     /\ Omitted(args.message) \/ WellFormed(args.message))
    => /\ result.ok
       /\ pc = "parsed" => Member(decoded.v, "data") = EmptyObj

(***************************************************************************)
(* C7 as stated: status is checked before message and message before data: *)
(* with status and message both invalid the error is InvalidStatusCode,    *)
(* with a valid status and an invalid message it is InvalidMessageType,    *)
(* and InvalidDataType is reported only when both are valid.               *)
(***************************************************************************)
C7_Precedence ==
    Called =>
        /\ (~StatusAccepted /\ ~MessageAccepted) => result.kind = "InvalidStatusCode"
        /\ (StatusAccepted /\ ~MessageAccepted) => result.kind = "InvalidMessageType"
        /\ result.kind = "InvalidDataType" => (StatusAccepted /\ MessageAccepted)

(***************************************************************************)
(* C8: in the PHP variant, with a valid status and message, a payload that *)
(* is neither null nor an array fails with an InvalidArgumentException     *)
(* whose text contains "Data must be an array or null".                    *)
(***************************************************************************)
C8_StrictDataRejected ==
    (/\ Called
     /\ lang = "php"
     /\ StatusAccepted
     /\ MessageAccepted
     /\ args.data.t \notin {"undefined", "null", "arr", "obj"})
    => /\ ~result.ok
       /\ result.kind = "InvalidDataType"
       /\ result.cls = "InvalidArgumentException"
       /\ Contains(result.text, "Data must be an array or null")

C8_Witness ==
    /\ pc = "returned"
    /\ lang = "php"
    /\ args.data = Str("invalid")
    /\ args.status = IntVal(200)
    /\ args.message = Str("a")
    /\ result.kind = "InvalidDataType"

(***************************************************************************)
(* C9 as stated: in the permissive variants (JavaScript, TypeScript, Go)   *)
(* every payload that is not null, of any type, is the data of the output  *)
(* unchanged.                                                              *)
(***************************************************************************)
C9_PayloadUnchanged ==
    (pc = "parsed" /\ lang \in Permissive /\ PlainJson(args.data))
    => Canon(Member(decoded.v, "data")) = Canon(args.data)

(***************************************************************************)
(* C10: when a validation fails the caller gets the error and no text, in  *)
(* part or whole, and so has nothing to decode.                            *)
(***************************************************************************)
C10_NoResponseOnFailure ==
    (Called /\ result.kind \in ValidationKinds)
    => ~result.ok /\ result.out = "" /\ pc # "parsed" /\ decoded = NotDecoded

C10_Witness ==
    /\ pc = "returned"
    /\ lang = "go"
    /\ args.status = IntVal(600)
    /\ args.data = Complex
    /\ result.kind = "InvalidStatusCode"

RECURSIVE Unserializable(_)
Unserializable(v) ==
    CASE v.t \in {"func", "cyclic"} -> TRUE
      [] v.t = "arr" -> \E i \in 1..Len(v.a) : Unserializable(v.a[i])
      [] v.t = "obj" -> \E i \in 1..Len(v.m) : Unserializable(v.m[i][2])
      [] OTHER -> FALSE

(***************************************************************************)
(* C11 as stated: with a valid status and message, a payload that cannot   *)
(* be serialized (it contains itself, or holds a function) fails with a    *)
(* serialization error, which is no validation error, and never succeeds   *)
(* with the data dropped or altered; a validation error comes before a     *)
(* serialization error.                                                    *)
(***************************************************************************)
C11_UnserializableFails ==
    Called =>
        /\ (/\ StatusAccepted
            /\ Omitted(args.message) \/ WellFormed(args.message)
            /\ Unserializable(args.data))
           => (~result.ok /\ result.kind = "SerializationError")
        /\ (~StatusAccepted \/ ~MessageAccepted) => result.kind # "SerializationError"

\* The keys of a decoded object in the order the text has them.
Keys(v) == [i \in 1..Len(v.m) |-> v.m[i][1]]

(***************************************************************************)
(* C12: in every successful output the top-level members are written in    *)
(* the order status, message, data: status is the first member, message    *)
(* the second, data (when the output has it) the third and last.           *)
(***************************************************************************)
C12_KeyOrder ==
    pc = "parsed" =>
        /\ decoded.ok
        /\ decoded.v.t = "obj"
        /\ Keys(decoded.v) \in {<<"status", "message", "data">>, <<"status", "message">>}

C12_Witness ==
    /\ pc = "parsed"
    /\ lang = "go"
    /\ args.data = Complex
    /\ Keys(decoded.v) = <<"status", "message", "data">>
    /\ Keys(Member(decoded.v, "data")) = <<"meta", "users">>

RECURSIVE CountSpaces(_, _)
CountSpaces(s, i) == IF At(s, i) = " " THEN 1 + CountSpaces(s, i + 1) ELSE 0

\* The line breaks of a text: an encoder writes a line break inside a string
\* as an escape, so each one in the text ends a line.
LineBreaks(s) == {i \in 1..Len(s) : At(s, i) = "\n"}

\* Whether the line before the break at j ends with an opening bracket, and
\* whether the line after it starts with a closing one.
OpensAt(s, j) == At(s, j - 1) \in {"{", "["}

ClosesAt(s, j) == At(s, j + 1 + CountSpaces(s, j + 1)) \in {"}", "]"}

\* Whether every line of s starts with unit spaces for each level of nesting
\* it stands at.
Indented(s, unit) ==
    \A i \in LineBreaks(s) :
        CountSpaces(s, i + 1)
            = unit * (Cardinality({j \in LineBreaks(s) : j <= i /\ OpensAt(s, j)})
                      - Cardinality({j \in LineBreaks(s) : j <= i /\ ClosesAt(s, j)}))

(***************************************************************************)
(* C13 as stated: every successful output is pretty-printed with an        *)
(* indentation of exactly 2 spaces for each level of nesting, in every     *)
(* variant.                                                                *)
(***************************************************************************)
C13_TwoSpaceIndent ==
    (Called /\ result.ok)
    => (Contains(result.out, "\n") /\ Indented(result.out, 2))

\* Two spaces a level in the JavaScript, TypeScript and Go variants, four in
\* the PHP variant.
IndentPerVariant ==
    (Called /\ result.ok)
    => Indented(result.out, IF lang = "php" THEN PhpIndent ELSE 2)

(***************************************************************************)
(* C14 as stated: in every successful output status is a number with an    *)
(* integer value between 100 and 599 and message is a string.              *)
(***************************************************************************)
C14_FieldTypes ==
    pc = "parsed" =>
        /\ IntegerInRange(Member(decoded.v, "status"))
        /\ Member(decoded.v, "message").t = "str"

(***************************************************************************)
(* C15 as stated: every response returned has the three members status,    *)
(* message and data, and its data is a JSON object.                        *)
(***************************************************************************)
C15_DataIsObject ==
    pc = "parsed" =>
        /\ Member(decoded.v, "status") # Undefined
        /\ Member(decoded.v, "message") # Undefined
        /\ Member(decoded.v, "data").t = "obj"

Reencode(l, v) ==
    CASE l \in JsLangs -> JsStringify(v, 0)
      [] l = "php" -> PhpEncode(v, 0)
      [] l = "go" -> GoMarshalIndent(v.m)

RoundTrips == decoded.ok /\ decoded.v.t = "obj" /\ Reencode(lang, decoded.v) = result.out

Build(l, a) ==
    CASE l = "js" -> jsonResponseJs(a.data, a.status, a.message)
      [] l = "ts" -> jsonResponseTs(a.data, a.status, a.message)
      [] l = "test.ts" -> jsonResponseTestTs(a.data, a.status, a.message)
      [] l = "php" -> jsonResponsePhp(a.data, a.status, a.message)
      [] l = "go" -> JsonResponseGo(a.data, a.status, a.message)

\* The arguments every variant can be called with.
SharedInputs == [data : SharedData, status : SharedStatus, message : GoMessage]

\* Two outcomes a caller cannot tell apart: both succeed with the same text,
\* or both fail with the same kind of error.
SameBehaviour(r1, r2) ==
    /\ r1.ok = r2.ok
    /\ r1.kind = r2.kind
    /\ r1.ok => r1.out = r2.out

(***************************************************************************)
(* C17 as stated: for the same arguments from the domain the variants      *)
(* share, the JavaScript, TypeScript, PHP and Go builders agree on success *)
(* or failure, on the kind of error, and on the output text.               *)
(***************************************************************************)
C17_VariantsAgree ==
    (Called /\ args \in SharedInputs)
    => \A l \in Langs : SameBehaviour(Build(l, args), result)

\* The same, for the JavaScript and the two TypeScript variants only.
JsVariantsAgree ==
    (Called /\ lang \in JsLangs) => \A l \in JsLangs : SameBehaviour(Build(l, args), result)

C20_ConcurrentAsAlone ==
    \A p \in Procs : cpc[p] = "done" => cresult[p] = Build(clang[p], cargs[p])

C20_Witness ==
    /\ cpc[1] = "done"
    /\ cpc[2] = "marshal"
    /\ clang[1] = "go"
    /\ clang[2] = "go"
    /\ cargs[1].status # cargs[2].status
    /\ cargs[1].data # cargs[2].data
    /\ cresult[1].ok
    /\ cresponse[2] # NoResponse

(***************************************************************************)
(* C29 as stated: in the JavaScript and TypeScript variants, with a valid  *)
(* status and message, the data of the output is the empty object when the *)
(* supplied data is falsy (undefined, null, 0, NaN, "", false) and the     *)
(* supplied value itself for every truthy value.                           *)
(***************************************************************************)
C29_FalsyDataIsEmptyObject ==
    (pc = "parsed" /\ lang \in JsLangs /\ StatusAccepted /\ MessageAccepted)
    => Member(decoded.v, "data") = (IF JsFalsy(args.data) THEN EmptyObj ELSE args.data)

\* The same for the payloads that hold no function.
FalsyDataIsEmptyObjectUnlessFunction ==
    (pc = "parsed" /\ lang \in JsLangs /\ StatusAccepted /\ MessageAccepted
     /\ ~Unserializable(args.data))
    => Member(decoded.v, "data") = (IF JsFalsy(args.data) THEN EmptyObj ELSE args.data)

(***************************************************************************)
(* C30: examples/response.js, examples/response.ts and the copy inlined in *)
(* test/test.ts behave alike: for every argument triple either all three   *)
(* throw an error of the same class with the same message, or all three    *)
(* return the same string.                                                 *)
(***************************************************************************)
C30_JsCopiesIdentical ==
    (Called /\ lang \in JsLangs)
    => /\ Build("js", args) = result
       /\ Build("ts", args) = result
       /\ Build("test.ts", args) = result

C30_Witness ==
    /\ Called
    /\ lang = "test.ts"
    /\ args.status = Float(401)
    /\ args.data = Obj(<< <<"f", Func>> >>)
    /\ result.ok
    /\ Build("js", args) = result

\* Whether the program printed a [FAIL] line.
PrintedFail == \E i \in 1..Len(tlines) : tlines[i] = "[FAIL]"

CountingProgramsTellFailure ==
    (texit # Running /\ tprog \in CountingPrograms) => (texit = 0 <=> ~PrintedFail)

(***************************************************************************)
(* What a run of the test runner did, read from its log                    *)
(***************************************************************************)
Happened(what, l) == \E i \in 1..Len(rlog) : rlog[i] = Event(what, l)

Exited == rexit # Running

\* The languages the runner attempts: the test file is there and the
\* runtime command answers.
AttemptedLangs == {l \in RunnerLangs : l \in files /\ l \in runtimes}

\* The languages the runner skips for their runtime.
WithoutRuntime == {l \in RunnerLangs : l \in files /\ l \notin runtimes}

EveryAttemptedPassed == \A l \in AttemptedLangs : Happened("exit 0", l)

Recorded(l) == \E i \in 1..Len(recorded) : recorded[i].language = l

RecordedFailure(l) == \E i \in 1..Len(recorded) : recorded[i] = [language |-> l, success |-> FALSE]

\* Whether a command was started for the language.
Started(l) == Happened("check", l) \/ Happened("test", l)

SuccessLine == "[SUCCESS] All tests passed!"

(***************************************************************************)
(* C22: run for all the languages, the runner exits with 0 exactly when at *)
(* least one language was attempted and the test process of every          *)
(* attempted language exited with 0; otherwise (an attempted language      *)
(* failed, no test file, no runtime) it exits with 1.                      *)
(***************************************************************************)
C22_AllModeExitCode ==
    (Exited /\ AllMode)
    => /\ rexit \in {0, 1}
       /\ rexit = 0 <=> (AttemptedLangs # {} /\ EveryAttemptedPassed)
       /\ files = {} => rexit = 1
       /\ AttemptedLangs = {} => rexit = 1

C22_Witness ==
    /\ Exited
    /\ AllMode
    /\ rexit = 0
    /\ files = {"javascript", "php", "typescript"}
    /\ runtimes = {"javascript", "php", "python"}
    /\ Happened("exit 0", "javascript")
    /\ Happened("exit 0", "php")

(***************************************************************************)
(* C23 as stated: run for all the languages, a configured language with no *)
(* test file is never run; a language whose runtime is missing is skipped, *)
(* is not in the summary, and the exit code is 0 as long as every          *)
(* attempted language passed.                                              *)
(***************************************************************************)
C23_MissingAreSkipped ==
    (Exited /\ AllMode)
    => /\ \A l \in RunnerLangs \ files : ~Started(l)
       /\ \A l \in WithoutRuntime : ~Happened("test", l) /\ ~Recorded(l)
       /\ (WithoutRuntime # {} /\ EveryAttemptedPassed) => rexit = 0

(***************************************************************************)
(* C23 amended: run for all the languages, a configured language with no   *)
(* test file is never run; a language whose runtime is missing is skipped, *)
(* is not in the summary, and the exit code is 0 as long as at least one   *)
(* language was attempted and every attempted language passed.             *)
(***************************************************************************)
C23_MissingAreSkippedWhenSomeRan ==
    (Exited /\ AllMode)
    => /\ \A l \in RunnerLangs \ files : ~Started(l)
       /\ \A l \in WithoutRuntime : ~Happened("test", l) /\ ~Recorded(l)
       /\ (WithoutRuntime # {} /\ AttemptedLangs # {} /\ EveryAttemptedPassed) => rexit = 0

C23_Witness ==
    /\ Exited
    /\ AllMode
    /\ files = {"javascript", "php"}
    /\ runtimes = {"javascript"}
    /\ Happened("[ERROR] runtime not found", "php")
    /\ Happened("exit 0", "javascript")
    /\ rexit = 0

(***************************************************************************)
(* C24: run for one language, the runner exits with 0 exactly when the     *)
(* test process of that language ran and exited with 0; an unknown alias   *)
(* exits with 1 and runs no test; a language without a test file is        *)
(* skipped with a [SKIP] line: no command is started, no error line is     *)
(* printed and no failure is recorded.                                     *)
(***************************************************************************)
C24_SingleModeExitCode ==
    (Exited /\ ~AllMode)
    => LET l == getLanguageByAlias(rtarget)
       IN  /\ rexit \in {0, 1}
           /\ rexit = 0 <=> (l # NoLanguage /\ Happened("test", l) /\ Happened("exit 0", l))
           /\ l = NoLanguage => (rexit = 1 /\ \A k \in RunnerLangs : ~Started(k))
           /\ (l # NoLanguage /\ l \notin files)
              => /\ Happened("[SKIP]", l)
                 /\ ~Started(l)
                 /\ ~Happened("[ERROR] tests failed", l)
                 /\ ~Happened("[ERROR] runtime not found", l)
                 /\ recorded = <<>>

C24_Witness ==
    /\ Exited
    /\ rtarget = "py"
    /\ "python" \notin files
    /\ Happened("[SKIP]", "python")
    /\ rexit = 1

(***************************************************************************)
(* C25 as stated: with npx there and ts-node missing the TypeScript suite  *)
(* is skipped: no TypeScript failure is recorded, and TypeScript does not  *)
(* make the exit code non-zero.                                            *)
(***************************************************************************)
C25_TsNodeMissingIsSkipped ==
    (Exited /\ "typescript" \in AttemptedLangs /\ ~tsNode
     /\ (AllMode \/ getLanguageByAlias(rtarget) = "typescript"))
    => /\ ~RecordedFailure("typescript")
       /\ (AllMode /\ \A l \in AttemptedLangs \ {"typescript"} : Happened("exit 0", l))
          => (rexit = 0 \/ AttemptedLangs = {"typescript"})

(***************************************************************************)
(* C26: run for all the languages, the languages are tested one after the  *)
(* other in the order of languageConfigs: no command of a language starts  *)
(* before the test process of the language before it has closed, the       *)
(* summary comes after the last language, and the exit after the summary.  *)
(***************************************************************************)
Pos(l) == CHOOSE i \in 1..Len(languageConfigs) : languageConfigs[i] = l

IsClose(ev) == ev[1] \in {"exit 0", "exit 1"}

C26_OneAfterTheOther ==
    AllMode =>
        /\ \A i, j \in 1..Len(rlog) :
              (i < j /\ rlog[i][2] # "" /\ rlog[j][2] # "") => Pos(rlog[i][2]) <= Pos(rlog[j][2])
        /\ \A i, j \in 1..Len(rlog) :
              (i < j /\ rlog[i][1] \in {"check", "test"} /\ rlog[j][1] \in {"check", "test"}
               /\ rlog[i][2] # rlog[j][2])
              => /\ rlog[i][1] = "check" =>
                       \E k \in (i + 1)..(j - 1) : rlog[k] = Event("checked", rlog[i][2])
                 /\ rlog[i][1] = "test" =>
                       \E k \in (i + 1)..(j - 1) : IsClose(rlog[k]) /\ rlog[k][2] = rlog[i][2]
        /\ \A i \in 1..Len(rlog) :
              rlog[i] = Event("summary", "")
              => /\ \A j \in i..Len(rlog) : rlog[j][2] = ""
                 /\ \A l \in files : \E k \in 1..(i - 1) : rlog[k] = Event("[INFO] Running", l)
                 /\ \A k \in 1..(i - 1) :
                       rlog[k][1] = "test" =>
                           \E c \in (k + 1)..(i - 1) : IsClose(rlog[c]) /\ rlog[c][2] = rlog[k][2]
        /\ (Exited /\ files # {})
           => /\ Happened("summary", "")
              /\ rlog[Len(rlog)] = Event("exit", "")

C26_Witness ==
    /\ Exited
    /\ AllMode
    /\ files = RunnerLangs
    /\ runtimes = RunnerLangs
    /\ Len(recorded) = 4
    /\ Happened("summary", "")

(***************************************************************************)
(* C28 as stated: run for all the languages, the summary line              *)
(* '[SUCCESS] All tests passed!' is printed exactly when the runner then   *)
(* exits with 0, also when a test process could not be spawned.            *)
(***************************************************************************)
C28_SuccessIffExitZero ==
    (Exited /\ AllMode) => (Happened(SuccessLine, "") <=> rexit = 0)

\* The success line comes with every exit with 0.
ExitZeroHasSuccessLine ==
    (Exited /\ AllMode /\ rexit = 0) => Happened(SuccessLine, "")

(***************************************************************************)
(* C27: testLanguage starts the Docker step and the configuration step     *)
(* only after run-tests exited with code 0; when run-tests exits with      *)
(* another code it returns false and runs no further command; once the     *)
(* tests passed it returns true, whatever fails or throws in the Docker    *)
(* and configuration steps.                                                *)
(***************************************************************************)
C27_TestsGateTheSteps ==
    /\ Len(llog) > 1 => llog[1] = <<"run-tests", "0">>
    /\ Len(llog) >= 1 => llog[1][1] = "run-tests"
    /\ (Len(llog) >= 1 /\ llog[1] = <<"run-tests", "1">>)
       => (Len(llog) = 1 /\ lreturn \in {"none", "false"} /\ (lpc = "done" => lreturn = "false"))
    /\ (Len(llog) >= 1 /\ llog[1] = <<"run-tests", "0">>)
       => (lreturn \in {"none", "true"} /\ (lpc = "done" => lreturn = "true"))

C27_Witness ==
    /\ lpc = "done"
    /\ lreturn = "true"
    /\ llog[1] = <<"run-tests", "0">>
    /\ \E i \in 1..Len(llog) : llog[i] = <<"docker build", "error">>
    /\ \E i \in 1..Len(llog) : llog[i] = <<"generate-docker-compose --list", "1">>

====
